---- MODULE Spec2Model ----
(***************************************************************************)
(* Model of src/app.py: the Streamlit session state (messages,             *)
(* patient_summary, clinical_summary, conversation_history), the chat      *)
(* input handler, the two OpenAI call styles, the summary extraction       *)
(* routines and the "New Consultation" reset.                              *)
(*                                                                         *)
(* Text is a sequence of tokens.  Every token is a literal piece of a      *)
(* Python string, and the text a sequence stands for is the concatenation  *)
(* of its tokens.  The four delimiter markers are two tokens each, cut     *)
(* after "PATIENT_" / "CLINICAL_", so that a marker can be put together    *)
(* from pieces that were apart before a substitution.  With this alphabet  *)
(* a marker, "Assistant:" or a whitespace run occurs in the concatenated   *)
(* string exactly where it occurs as tokens, so the regular expressions    *)
(* of the source act on token sequences as they act on the strings.        *)
(***************************************************************************)
EXTENDS Integers, Sequences, FiniteSets, TLC

VARIABLES messages, patient_summary, clinical_summary, conversation_history,
          request, last_event

vars == <<messages, patient_summary, clinical_summary, conversation_history,
          request, last_event>>

session == <<messages, patient_summary, clinical_summary, conversation_history>>

----------------------------------------------------------------------------
(* Bounds *)

\* Longest transcript the multi-turn specification builds.
MaxMessages == 4

\* Most pieces a generated reply is put together from (SpecOneTurn).
MaxPieces == 4

----------------------------------------------------------------------------
(* Python values *)

\* Optional values: None is the empty sequence, a value v is <<v>>.
None == <<>>

Some(v) == <<v>>

\* Variant of the test that takes every value but None as true.
TruthyWhenPresent(opt) == opt /= None

\* Truthiness of an optional string (`if x:`): None and "" are falsy.
Truthy(opt) == opt /= None /\ opt[1] /= <<>>

\* The delimiter markers of the two regular expressions.
BEGIN_PATIENT == <<"---BEGIN_PATIENT_", "SUMMARY---">>

END_PATIENT == <<"---END_PATIENT_", "SUMMARY---">>

BEGIN_CLINICAL == <<"---BEGIN_CLINICAL_", "SUMMARY_CONFIDENTIAL---">>

END_CLINICAL == <<"---END_CLINICAL_", "SUMMARY_CONFIDENTIAL---">>

ASSISTANT_TAG == <<"Assistant:">>

Whitespace == {" ", "\n\n"}

----------------------------------------------------------------------------
(* String primitives used by the source *)

\* pat occurs in text at index i.
OccursAt(text, pat, i) ==
    /\ i >= 1
    /\ i + Len(pat) - 1 <= Len(text)
    /\ SubSeq(text, i, i + Len(pat) - 1) = pat

\* `pat in text`
Contains(text, pat) == \E i \in 1..Len(text) : OccursAt(text, pat, i)

Min(S) == CHOOSE m \in S : \A n \in S : m <= n

Max(S) == CHOOSE m \in S : \A n \in S : m >= n

\* str.strip(): leading and trailing whitespace removed.
strip(text) ==
    LET solid == {i \in 1..Len(text) : text[i] \notin Whitespace}
    IN  IF solid = {} THEN <<>> ELSE SubSeq(text, Min(solid), Max(solid))

\* re.search(open(.*?)close, text, re.DOTALL): the leftmost opening marker
\* that has a closing marker after it, and the first such closing marker.
\* None, or <<[start, body_from, body_to, end]>>.
re_search(open, close, text) ==
    LET closes(i) == {j \in (i + Len(open))..Len(text) : OccursAt(text, close, j)}
        starts == {i \in 1..Len(text) : OccursAt(text, open, i) /\ closes(i) /= {}}
    IN  IF starts = {} THEN None
        ELSE LET i == Min(starts)
                 j == Min(closes(i))
             IN  Some([start |-> i, body_from |-> i + Len(open),
                       body_to |-> j - 1, end |-> j + Len(close) - 1])

\* match.group(1)
group1(text, m) == SubSeq(text, m.body_from, m.body_to)

\* re.sub(open.*?close, "", text, flags=re.DOTALL): every non-overlapping
\* match removed, scanning left to right.
RECURSIVE re_sub(_, _, _)
re_sub(open, close, text) ==
    LET m == re_search(open, close, text)
    IN  IF m = None THEN text
        ELSE SubSeq(text, 1, m[1].start - 1)
             \o re_sub(open, close, SubSeq(text, m[1].end + 1, Len(text)))

\* text.split("Assistant:")[-1]
split_last(text, tag) ==
    LET at == {i \in 1..Len(text) : OccursAt(text, tag, i)}
    IN  IF at = {} THEN text
        ELSE SubSeq(text, Max(at) + Len(tag), Len(text))

----------------------------------------------------------------------------
(* The extraction routines *)

extract_summaries(text) ==
    LET patient_match == re_search(BEGIN_PATIENT, END_PATIENT, text)
        clinical_match == re_search(BEGIN_CLINICAL, END_CLINICAL, text)
    IN  [patient_summary |->
            IF patient_match /= None
            THEN Some(strip(group1(text, patient_match[1]))) ELSE None,
         clinical_summary |->
            IF clinical_match /= None
            THEN Some(strip(group1(text, clinical_match[1]))) ELSE None]

\* Variant of the cleaning that leaves the surrounding whitespace.
clean_without_strip(text) ==
    re_sub(BEGIN_CLINICAL, END_CLINICAL, re_sub(BEGIN_PATIENT, END_PATIENT, text))

clean_response_for_display(text) ==
    strip(re_sub(BEGIN_CLINICAL, END_CLINICAL,
                 re_sub(BEGIN_PATIENT, END_PATIENT, text)))

\* The display text the chat input handler stores for a reply.
display_response(full_response) ==
    IF Contains(full_response, ASSISTANT_TAG)
    THEN clean_response_for_display(strip(split_last(full_response, ASSISTANT_TAG)))
    ELSE clean_response_for_display(full_response)

----------------------------------------------------------------------------
(* Talking to the text-generation service *)

role_label(msg) == IF msg.role = "user" THEN "Patient:" ELSE "Assistant:"

RECURSIVE conversation_text(_)
conversation_text(msgs) ==
    IF msgs = <<>> THEN <<>>
    ELSE <<role_label(Head(msgs)), " ">> \o Head(msgs).content \o <<"\n\n">>
         \o conversation_text(Tail(msgs))

\* build_conversation_text() on st.session_state.messages = msgs.
build_conversation_text(msgs) == strip(conversation_text(msgs))

\* full_input of call_openai_with_prompt_id.
full_input(msgs, user_message) ==
    LET history == build_conversation_text(msgs)
    IN  IF history /= <<>>
        THEN history \o <<"\n\n", "Patient:", " ">> \o user_message
        ELSE <<"Patient:", " ">> \o user_message

SYSTEM_MESSAGE == [role |-> "system", content |-> <<"system-prompt">>]

\* The messages array of call_openai_standard.
chat_messages(msgs, user_message) ==
    <<SYSTEM_MESSAGE>> \o msgs \o <<[role |-> "user", content |-> user_message]>>

NoRequest == [input |-> None, chat |-> None]

----------------------------------------------------------------------------
(* The chat input handler *)

user_turn(prompt) == [role |-> "user", content |-> prompt]

assistant_turn(full_response) ==
    [role |-> "assistant", content |-> full_response,
     display |-> display_response(full_response)]

\* Single-field variant of the update: each summary found is stored.
stored_summaries_each(old, sums) ==
    [patient_summary |->
        IF Truthy(sums.patient_summary)
        THEN sums.patient_summary[1] ELSE old.patient_summary,
     clinical_summary |->
        IF Truthy(sums.clinical_summary)
        THEN sums.clinical_summary[1] ELSE old.clinical_summary]

\* `if patient_sum and clinical_sum:` and the two assignments under it.
stored_summaries(old, sums) ==
    IF Truthy(sums.patient_summary) /\ Truthy(sums.clinical_summary)
    THEN [patient_summary |-> sums.patient_summary[1],
          clinical_summary |-> sums.clinical_summary[1]]
    ELSE old

\* Variant that records a fallback assistant turn when the call failed.
transcript_after_fallback_turn(msgs, full_response) ==
    IF Truthy(full_response)
    THEN Append(msgs, assistant_turn(full_response[1]))
    ELSE Append(msgs, assistant_turn(<<"x">>))

\* `if full_response:` -- the assistant turn is saved only for a reply.
transcript_after(msgs, full_response) ==
    IF Truthy(full_response)
    THEN Append(msgs, assistant_turn(full_response[1]))
    ELSE msgs

\* One run of the `if prompt := st.chat_input(...)` block, given what the
\* call returned (full_response) and what it handed to the service (req).
ChatInput(prompt, full_response, req) ==
    LET msgs == Append(messages, user_turn(prompt))
        old == [patient_summary |-> patient_summary,
                clinical_summary |-> clinical_summary]
        new == IF Truthy(full_response)
               THEN stored_summaries(old, extract_summaries(full_response[1]))
               ELSE old
    IN  /\ prompt /= <<>>
        /\ messages' = transcript_after(msgs, full_response)
        /\ patient_summary' = new.patient_summary
        /\ clinical_summary' = new.clinical_summary
        /\ last_event' = IF Truthy(full_response) THEN "reply" ELSE "failed"
        /\ request' = req
        /\ UNCHANGED conversation_history

\* call_openai_with_prompt_id returns the text of the response.
ReplyByPromptId(prompt, text) ==
    ChatInput(prompt, Some(text),
              [input |-> Some(full_input(Append(messages, user_turn(prompt)), prompt)),
               chat |-> None])

\* call_openai_with_prompt_id catches an exception of the API and returns None.
PromptIdError(prompt) ==
    ChatInput(prompt, None,
              [input |-> Some(full_input(Append(messages, user_turn(prompt)), prompt)),
               chat |-> None])

\* AttributeError: call_openai_standard is called and returns the text.
ReplyByFallback(prompt, text) ==
    ChatInput(prompt, Some(text),
              [input |-> Some(full_input(Append(messages, user_turn(prompt)), prompt)),
               chat |-> Some(chat_messages(Append(messages, user_turn(prompt)), prompt))])

\* AttributeError, and call_openai_standard fails as well: None.
FallbackError(prompt) ==
    ChatInput(prompt, None,
              [input |-> Some(full_input(Append(messages, user_turn(prompt)), prompt)),
               chat |-> Some(chat_messages(Append(messages, user_turn(prompt)), prompt))])

\* Reset that forgets the transcript only.
NewConsultationKeepingSummaries ==
    /\ messages' = <<>>
    /\ conversation_history' = <<>>
    /\ request' = NoRequest
    /\ last_event' = "reset"
    /\ UNCHANGED <<patient_summary, clinical_summary>>

\* The "New Consultation" button: every key of the session state is deleted
\* and the rerun initialises them again.
NewConsultation ==
    /\ messages' = <<>>
    /\ patient_summary' = <<>>
    /\ clinical_summary' = <<>>
    /\ conversation_history' = <<>>
    /\ request' = NoRequest
    /\ last_event' = "reset"

\* The doctor dashboard's status metric.
DoctorStatus == IF clinical_summary /= <<>> THEN "Complete" ELSE "In Progress"

\* What the chat rendering loop writes for a message.
display_text(msg) == IF msg.role = "assistant" THEN msg.display ELSE msg.content

----------------------------------------------------------------------------
(* Inputs *)

\* What the patient types.
Prompts == {<<"x">>, BEGIN_PATIENT \o <<"x">>}

PatientSection(body) == BEGIN_PATIENT \o body \o END_PATIENT

ClinicalSection(body) == BEGIN_CLINICAL \o body \o END_CLINICAL

\* Replies of the service in the multi-turn specification: plain text, both
\* sections, one section, an unterminated section, an empty body, the text
\* "Assistant:" before and inside a section, overlapping sections, nothing.
Replies ==
    { <<>>,
      <<" ">>,
      <<"x">>,
      <<"x", " ">> \o PatientSection(<<" ", "x", " ">>) \o <<" ">>
          \o ClinicalSection(<<"s", " ">>),
      ClinicalSection(<<"s", "s">>) \o PatientSection(<<"x", "x">>),
      PatientSection(<<"x">>),
      ClinicalSection(<<"s">>),
      PatientSection(<<"x">>) \o BEGIN_CLINICAL \o <<"s">>,
      PatientSection(<<>>) \o ClinicalSection(<<"s">>),
      PatientSection(<<"x">>) \o ClinicalSection(<<" ">>),
      <<"x", "Assistant:", " ", "x">>,
      PatientSection(<<"x">>) \o BEGIN_CLINICAL
          \o <<"s", "Assistant:", "s">> \o END_CLINICAL,
      BEGIN_CLINICAL \o <<"s">> \o BEGIN_PATIENT \o END_CLINICAL \o END_PATIENT }

\* The pieces generated replies are put together from (SpecOneTurn).
Pieces ==
    { BEGIN_PATIENT, END_PATIENT, BEGIN_CLINICAL, END_CLINICAL,
      PatientSection(<<>>), <<"---BEGIN_PATIENT_">>, <<"SUMMARY---">>,
      <<"x">>, <<" ">>, ASSISTANT_TAG }

RECURSIVE TextsOf(_)
TextsOf(n) ==
    IF n = 0 THEN {<<>>}
    ELSE LET shorter == TextsOf(n - 1)
         IN  shorter \cup {p \o t : p \in Pieces, t \in shorter}

GeneratedReplies == TextsOf(MaxPieces)

----------------------------------------------------------------------------
(* Specifications *)

Init ==
    /\ messages = <<>>
    /\ patient_summary = <<>>
    /\ clinical_summary = <<>>
    /\ conversation_history = <<>>
    /\ request = NoRequest
    /\ last_event = "start"

\* The transcript has room for one more round trip.
CanSubmit == Len(messages) + 2 <= MaxMessages

Next ==
    \/ CanSubmit /\ \E prompt \in Prompts, text \in Replies :
                        ReplyByPromptId(prompt, text)
    \/ CanSubmit /\ \E prompt \in Prompts, text \in Replies :
                        ReplyByFallback(prompt, text)
    \/ CanSubmit /\ \E prompt \in Prompts : PromptIdError(prompt)
    \/ CanSubmit /\ \E prompt \in Prompts : FallbackError(prompt)
    \/ NewConsultation

Spec == Init /\ [][Next]_vars

\* One round trip of the handler over every generated reply.
NextOneTurn ==
    \/ messages = <<>> /\ \E text \in GeneratedReplies :
                              ReplyByPromptId(<<"x">>, text)
    \/ NewConsultation

SpecOneTurn == Init /\ [][NextOneTurn]_vars

----------------------------------------------------------------------------
(* Vocabulary of the properties *)

Markers == {BEGIN_PATIENT, END_PATIENT, BEGIN_CLINICAL, END_CLINICAL}

HasMarker(text) == \E m \in Markers : Contains(text, m)

AssistantTurns == {i \in 1..Len(messages) : messages[i].role = "assistant"}

\* The step just taken appended a reply of the service.
ReplyRecorded ==
    /\ last_event' = "reply"
    /\ Len(messages') = Len(messages) + 2

\* What extract_summaries reports for the reply just recorded.
Reported == extract_summaries(messages'[Len(messages')].content)

SummariesUnchanged ==
    /\ patient_summary' = patient_summary
    /\ clinical_summary' = clinical_summary

\* The transcript the service was called with: all turns up to and
\* including the patient turn just submitted.
TranscriptAtCall ==
    IF last_event = "reply" THEN SubSeq(messages, 1, Len(messages) - 1) ELSE messages

\* The part of a reply the handler keeps before cleaning it.
KeptPart(raw) ==
    IF Contains(raw, ASSISTANT_TAG) THEN strip(split_last(raw, ASSISTANT_TAG)) ELSE raw

NothingFound == [patient_summary |-> None, clinical_summary |-> None]

----------------------------------------------------------------------------
(* Properties *)

\* C1: a reply with exactly one complete section (the extractor reports one
\* summary and not the other) leaves patient_summary and clinical_summary as
\* they were before the turn.
C1_OneSectionLeavesSummaries ==
    [][ (ReplyRecorded /\ ((Reported.patient_summary = None)
                             /= (Reported.clinical_summary = None)))
        => SummariesUnchanged ]_vars

\* A reply with one section only was recorded while a pair was stored.
C1_Witness ==
    /\ last_event = "reply"
    /\ LET found == extract_summaries(messages[Len(messages)].content)
       IN  (found.patient_summary = None) /= (found.clinical_summary = None)
    /\ patient_summary /= <<>>
    /\ clinical_summary /= <<>>

\* C2: a reply with a complete patient section and a complete clinical
\* section overwrites the stored summaries with its two trimmed bodies, also
\* when one of the bodies is empty after trimming.
C2_BothSectionsOverwrite ==
    [][ (ReplyRecorded /\ Reported.patient_summary /= None
                       /\ Reported.clinical_summary /= None)
        => /\ patient_summary' = Reported.patient_summary[1]
           /\ clinical_summary' = Reported.clinical_summary[1] ]_vars

\* C3: the display text of an assistant turn shows nothing of the body of the
\* clinical section extracted from its raw text.  The token "s" stands for
\* clinical content: when every "s" of the raw text lies in the body of the
\* extracted clinical section, no "s" is displayed.
C3_ClinicalBodyNotDisplayed ==
    \A i \in AssistantTurns :
        LET raw == messages[i].content
            m == re_search(BEGIN_CLINICAL, END_CLINICAL, raw)
        IN  ( /\ m /= None
              /\ \E k \in 1..Len(raw) : raw[k] = "s"
              /\ \A k \in 1..Len(raw) :
                    raw[k] = "s" => (m[1].body_from <= k /\ k <= m[1].body_to) )
            => ~Contains(messages[i].display, <<"s">>)

\* C4: no display text of any turn contains one of the four markers.
C4_NoMarkerDisplayed ==
    \A i \in 1..Len(messages) : ~HasMarker(display_text(messages[i]))

\* C5: patient_summary is non-empty exactly when clinical_summary is.
C5_SummariesSetTogether ==
    (patient_summary /= <<>>) <=> (clinical_summary /= <<>>)

\* A pair of summaries is stored.
C5_Witness ==
    /\ patient_summary /= <<>>
    /\ clinical_summary /= <<>>
    /\ Len(messages) = 4

\* C6: when the call returns no text, the transcript is the transcript before
\* the call followed by the submitted patient turn only (no assistant turn),
\* and both summaries are unchanged.
C6_FailedCallKeepsSession ==
    [][ last_event' = "failed"
        => /\ Len(messages') = Len(messages) + 1
           /\ SubSeq(messages', 1, Len(messages)) = messages
           /\ messages'[Len(messages')].role = "user"
           /\ SummariesUnchanged ]_vars

\* A call failed after a round trip that stored summaries.
C6_Witness ==
    /\ last_event = "failed"
    /\ Len(messages) = 3
    /\ messages[2].role = "assistant"
    /\ clinical_summary /= <<>>

\* C7: after "New Consultation" the session is the initial empty one and the
\* doctor view is not complete; the state after a reset is the same whatever
\* state it was applied to, so a second reset changes nothing.
C7_ResetYieldsEmptySession ==
    last_event = "reset"
    => /\ messages = <<>>
       /\ patient_summary = <<>>
       /\ clinical_summary = <<>>
       /\ conversation_history = <<>>
       /\ request = NoRequest
       /\ DoctorStatus = "In Progress"

\* A reset has been applied.
C7_Witness == last_event = "reset" /\ messages = <<>> /\ DoctorStatus = "In Progress"

\* C8 as stated: the display text of every assistant turn is the cleaned raw
\* response, and the trimmed response itself when it has no marker.
C8_DisplayIsCleanedResponse ==
    \A i \in AssistantTurns :
        LET raw == messages[i].content
        IN  /\ messages[i].display = clean_response_for_display(raw)
            /\ ~HasMarker(raw) => messages[i].display = strip(raw)

\* C8 amended: the display text is the cleaning of the raw response, or, when
\* the response contains "Assistant:", of the text after its last
\* "Assistant:"; when that text has no marker the display is that text
\* trimmed, and a response with no marker reports no summary.
C8_DisplayIsCleanedKeptPart ==
    \A i \in AssistantTurns :
        LET raw == messages[i].content
            kept == KeptPart(raw)
        IN  /\ messages[i].display = clean_response_for_display(kept)
            /\ ~HasMarker(kept) => messages[i].display = strip(kept)
            /\ ~HasMarker(raw) => extract_summaries(raw) = NothingFound

\* A reply with both sections, text around them and no "Assistant:".
C8_Witness ==
    \E i \in AssistantTurns :
        LET raw == messages[i].content
            found == extract_summaries(raw)
        IN  /\ ~Contains(raw, ASSISTANT_TAG)
            /\ found.patient_summary /= None
            /\ found.clinical_summary /= None
            /\ messages[i].display = <<"x">>

\* C9: cleaning a display text again leaves it unchanged, and no section is
\* found in it.
C9_CleaningIsIdempotent ==
    \A i \in AssistantTurns :
        LET shown == messages[i].display
        IN  /\ clean_response_for_display(shown) = shown
            /\ extract_summaries(shown) = NothingFound

\* C10: the conversation handed to the service is the serialized transcript,
\* every turn once and the submitted patient turn last, for the prompt-ID
\* call and for the chat-completion fallback.
C10_TranscriptSentOnce ==
    /\ request.input /= None
          => request.input[1] = build_conversation_text(TranscriptAtCall)
    /\ request.chat /= None
          => request.chat[1] = <<SYSTEM_MESSAGE>> \o TranscriptAtCall

====
